---- MODULE Spec2Model ----
(***************************************************************************)
(* Model of jijinalllist.py: the fund catalog fetch (get_fund_list), the   *)
(* per-identifier latest-NAV fetch (fetch_latest_nav) and the sequential   *)
(* pipeline of main.                                                       *)
(*                                                                         *)
(* Conventions.                                                            *)
(*  - The Chinese column names of the source are written as sequences of   *)
(*    romanised words, one element per word of the name, so that the       *)
(*    source's substring tests ("代码" in c) are subsequence tests:        *)
(*       基金代码 = <<"jijin","daima">>     代码 = <<"daima">>             *)
(*       净值日期 = <<"jingzhi","riqi">>    单位净值 = <<"danwei","jingzhi">>*)
(*  - Python values are tagged records: [none |-> TRUE], [str |-> s],      *)
(*    [int |-> n], [float |-> n] (n in units of 0.0001), [date |-> ymd],   *)
(*    [ts |-> ...] (a pandas Timestamp), NaT and NaN.                      *)
(*  - A DataFrame is [columns |-> sequence of names,                       *)
(*                    rows |-> sequence of rows, a row a sequence of cells *)
(*                    in column order].  Column names of provider frames   *)
(*    are pairwise distinct.                                               *)
(*  - The file imports only os; the names pd, ak, time, datetime, Tuple    *)
(*    and Optional it uses are taken to be pandas, akshare, the time       *)
(*    module, datetime.datetime and the typing names.                      *)
(***************************************************************************)
EXTENDS Integers, Sequences, FiniteSets, TLC

VARIABLES
    nav_pc,      \* fetch_latest_nav: "idle", "called", "returned"
    nav_resp,    \* what ak.fund_open_fund_info_em did for this call
    nav_ret,     \* the pair fetch_latest_nav returned
    ak,          \* the attributes the installed provider module has
    list_pc,     \* get_fund_list: "idle", "probe", "call", "normalize", "returned", "raised"
    list_func,   \* func
    list_called, \* the provider functions called so far, in order
    list_df,     \* df as the provider returned it
    list_ret,    \* the table returned or the error raised
    OUT_PATH,    \* the output path, as its sequence of components
    pc,          \* main: "idle", "step1", "fetch", "sleep", "assign", "ensure_dir", "write", "done", "raised"
    catalog,     \* what get_fund_list returned to main
    df,          \* main's table
    i,           \* the loop counter of main
    nav_dates,   \* main's list of dates
    nav_vals,    \* main's list of values
    nav_log,     \* history: each fetch_latest_nav call, its provider outcome and its result
    events,      \* history: the fetches, sleeps, makedirs and writes, in order
    slept,       \* total time slept, in ms
    out_file,    \* the table in the spreadsheet, None before it is written
    out_dirs     \* the directories created

nav_vars == <<nav_pc, nav_resp, nav_ret>>
list_vars == <<list_pc, list_func, list_called, list_df, list_ret>>
main_vars == <<OUT_PATH, pc, catalog, df, i, nav_dates, nav_vals, nav_log, events, slept,
               out_file, out_dirs>>
vars == <<nav_vars, ak, list_vars, main_vars>>

(***************************************************************************)
(* Bounds of the model.                                                    *)
(***************************************************************************)
\* most rows of a NAV series the provider returns
MaxRows == 2
\* most rows of the catalog the provider returns
MaxFunds == 3
\* TOP_N (line 15) is 1000 in the source; the model runs the same code with
\* a small TOP_N so that catalogs both shorter and longer than it occur
TOP_N == 2
\* SLEEP_SEC (line 16), in milliseconds
SLEEP_MS == 30

(***************************************************************************)
(* Python values.                                                          *)
(***************************************************************************)
None == [none |-> TRUE]
NaT == [nat |-> TRUE]
NaN == [nan |-> TRUE]
Str(s) == [str |-> s]
Float(n) == [float |-> n]
DateObj(y, m, d) == [date |-> <<y, m, d>>]
Timestamp(y, m, d, ns) == [ts |-> <<y, m, d>>, ns |-> ns]

IsKind(v, k) == k \in DOMAIN v

RECURSIVE IntToStr(_)
\* str(n) for a non-negative integer: decimal digits, no leading zeros
IntToStr(n) ==
    LET digit(k) == CASE k = 0 -> "0" [] k = 1 -> "1" [] k = 2 -> "2" [] k = 3 -> "3"
                      [] k = 4 -> "4" [] k = 5 -> "5" [] k = 6 -> "6" [] k = 7 -> "7"
                      [] k = 8 -> "8" [] k = 9 -> "9"
    IN  IF n < 10 THEN digit(n) ELSE IntToStr(n \div 10) \o digit(n % 10)

RECURSIVE zfill_off_by_one(_, _)
\* mutant of zfill: pads to one character less than width
zfill_off_by_one(s, width) ==
    IF Len(s) >= width - 1 THEN s ELSE zfill_off_by_one("0" \o s, width)

RECURSIVE zfill(_, _)
\* str.zfill(width) on a string of digits: pads on the left, never truncates
zfill(s, width) == IF Len(s) >= width THEN s ELSE zfill("0" \o s, width)

(***************************************************************************)
(* pandas conversions used by fetch_latest_nav.                            *)
(***************************************************************************)
\* days since 1970-01-01 of a civil date (the ordering of datetime64 values)
DaysFromCivil(ymd) ==
    LET y == IF ymd[2] <= 2 THEN ymd[1] - 1 ELSE ymd[1]
        era == y \div 400
        yoe == y - era * 400
        mp == IF ymd[2] > 2 THEN ymd[2] - 3 ELSE ymd[2] + 9
        doy == (153 * mp + 2) \div 5 + ymd[3] - 1
        doe == yoe * 365 + yoe \div 4 - yoe \div 100 + doy
    IN  era * 146097 + doe - 719468

\* pd.to_datetime(cell, errors="coerce"), element by element
to_datetime(cell) ==
    CASE IsKind(cell, "date") -> Timestamp(cell.date[1], cell.date[2], cell.date[3], 0)
      [] IsKind(cell, "ts") -> cell
      [] IsKind(cell, "float") -> Timestamp(1970, 1, 1, cell.float \div 10000)
      [] OTHER -> NaT

\* pd.to_numeric(cell, errors="coerce"), element by element; a datetime64
\* column is viewed as int64 nanoseconds (NaT included), never as NaN
to_numeric(cell) ==
    CASE IsKind(cell, "float") -> cell
      [] IsKind(cell, "ts") -> [int64 |-> <<DaysFromCivil(cell.ts), cell.ns>>]
      [] IsKind(cell, "nat") -> [int64 |-> <<-106752, 0>>]
      [] OTHER -> NaN

isna(cell) == IsKind(cell, "nat") \/ IsKind(cell, "nan") \/ IsKind(cell, "none")

\* Timestamp.strftime("%Y-%m-%d")
strftime(t) ==
    zfill(IntToStr(t.ts[1]), 4) \o "-" \o zfill(IntToStr(t.ts[2]), 2)
        \o "-" \o zfill(IntToStr(t.ts[3]), 2)

\* the key sort_values orders a column by: <<days, ns>>
SortKey(cell) ==
    CASE IsKind(cell, "ts") -> <<DaysFromCivil(cell.ts), cell.ns>>
      [] IsKind(cell, "int64") -> cell.int64
      [] IsKind(cell, "float") -> <<0, cell.float>>
      [] OTHER -> <<1000000, 0>>   \* na_position="last"

KeyLeq(a, b) == a[1] < b[1] \/ (a[1] = b[1] /\ a[2] <= b[2])

(***************************************************************************)
(* DataFrame helpers.                                                      *)
(***************************************************************************)
HasColumn(d, name) == \E j \in 1..Len(d.columns) : d.columns[j] = name

\* position of the column called name (names are distinct)
ColumnIndex(d, name) == CHOOSE j \in 1..Len(d.columns) : d.columns[j] = name

\* df[name] = values, for a column df has: values[r] replaces the cell of
\* row r
SetColumn(d, name, values) ==
    LET j == ColumnIndex(d, name)
    IN  [d EXCEPT !.rows = [r \in 1..Len(d.rows) |-> [d.rows[r] EXCEPT ![j] = values[r]]]]

\* df[name], the cells of the column in row order
Column(d, name) == [r \in 1..Len(d.rows) |-> d.rows[r][ColumnIndex(d, name)]]

\* mutant of dropna: no row is dropped
dropna_none(rows, subset) == rows

RECURSIVE dropna(_, _)
\* DataFrame.dropna(subset=...) on the rows: a row goes when one of the
\* cells at the positions in subset is missing; the others keep their order
dropna(rows, subset) ==
    IF rows = <<>> THEN <<>>
    ELSE IF \E j \in subset : isna(Head(rows)[j])
         THEN dropna(Tail(rows), subset)
         ELSE <<Head(rows)>> \o dropna(Tail(rows), subset)

(***************************************************************************)
(* fetch_latest_nav                                                        *)
(***************************************************************************)
JingZhiRiQi == <<"jingzhi", "riqi">>       \* 净值日期
DanWeiJingZhi == <<"danwei", "jingzhi">>   \* 单位净值

NonePair == <<None, None>>

\* lines 96-97: the preferred name when present, else the column at a fixed
\* position; IndexError(dfn) when a position that is needed does not exist
date_col(dfn) ==
    IF HasColumn(dfn, JingZhiRiQi) THEN JingZhiRiQi ELSE dfn.columns[1]

nav_col(dfn) ==
    IF HasColumn(dfn, DanWeiJingZhi) THEN DanWeiJingZhi ELSE dfn.columns[2]

IndexError(dfn) ==
    \/ ~HasColumn(dfn, JingZhiRiQi) /\ Len(dfn.columns) < 1
    \/ ~HasColumn(dfn, DanWeiJingZhi) /\ Len(dfn.columns) < 2

\* lines 99-102 up to dropna: both columns coerced, rows with a missing
\* date or value dropped
Coerced(dfn) ==
    LET dc == date_col(dfn)
        nc == nav_col(dfn)
        d1 == SetColumn(dfn, dc, [r \in 1..Len(dfn.rows) |-> to_datetime(Column(dfn, dc)[r])])
        d2 == SetColumn(d1, nc, [r \in 1..Len(d1.rows) |-> to_numeric(Column(d1, nc)[r])])
        di == ColumnIndex(dfn, dc)
        ni == ColumnIndex(dfn, nc)
    IN  [d2 EXCEPT !.rows = dropna(d2.rows, {di, ni})]

\* mutant of LastRows: the last row in the provider's order, as if the frame
\* had not been sorted
LastRows_unsorted(d, dc) == {d.rows[Len(d.rows)]}

\* lines 102, 107: the rows sort_values(date_col) may leave in last place.
\* The sort is not stable, so any row carrying the greatest key can be last.
LastRows(d, dc) ==
    LET di == ColumnIndex(d, dc)
    IN  {d.rows[r] : r \in {q \in 1..Len(d.rows) :
            \A p \in 1..Len(d.rows) :
                KeyLeq(SortKey(d.rows[p][di]), SortKey(d.rows[q][di]))}}

\* line 108 for one row: a cell that is no Timestamp has no strftime
\* (AttributeError, turned into (None, None) by the except clause); float()
\* of a float64 cell, NaN included, is that value
ReturnOf(last, di, ni) ==
    IF IsKind(last[di], "ts") THEN <<Str(strftime(last[di])), last[ni]>> ELSE NonePair

\* the set of pairs fetch_latest_nav can return for a provider outcome
fetch_latest_nav(resp) ==
    IF resp.kind = "raise" THEN {NonePair}
    ELSE IF resp.kind = "none" THEN {NonePair}
    ELSE LET dfn == resp.frame IN
        IF Len(dfn.rows) = 0 THEN {NonePair}
        ELSE IF IndexError(dfn) THEN {NonePair}
        ELSE LET d == Coerced(dfn)
                 di == ColumnIndex(dfn, date_col(dfn))
                 ni == ColumnIndex(dfn, nav_col(dfn))
             IN  IF Len(d.rows) = 0 THEN {NonePair}
                 ELSE {ReturnOf(last, di, ni) : last \in LastRows(d, date_col(dfn))}

(***************************************************************************)
(* The provider's NAV endpoint: what one call can do.                      *)
(***************************************************************************)
NavCells ==
    { DateObj(2024, 1, 2), DateObj(2023, 12, 29), Float(10520), Float(9870), Str("--") }

NavSchemas ==
    { <<>>,
      <<JingZhiRiQi>>,
      <<DanWeiJingZhi>>,
      <<JingZhiRiQi, DanWeiJingZhi>>,
      <<DanWeiJingZhi, JingZhiRiQi>>,
      <<<<"x">>, <<"y">>>>,
      <<JingZhiRiQi, <<"y">>>>,
      <<<<"x">>, DanWeiJingZhi>>,
      <<DanWeiJingZhi, <<"y">>>>,
      <<<<"x">>, JingZhiRiQi>> }

NavFrames(cols, n) ==
    { [columns |-> cols, rows |-> rows] :
        rows \in [1..n -> [1..Len(cols) -> NavCells]] }

NavResponses(cols, n) ==
    { [kind |-> "raise"], [kind |-> "none"] }
        \cup { [kind |-> "frame", frame |-> f] : f \in NavFrames(cols, n) }

(***************************************************************************)
(* get_fund_list                                                           *)
(*                                                                         *)
(* A cell of a catalog frame is [v |-> the value, col |-> the provider     *)
(* column it came from, row |-> the provider row it came from]; col and    *)
(* row are history only, no operation reads them.                          *)
(***************************************************************************)
PyInt(n) == [int |-> n]

JiJinDaiMa == <<"jijin", "daima">>           \* 基金代码
DaiMa == <<"daima">>                         \* 代码
JiJinJianCheng == <<"jijin", "jiancheng">>   \* 基金简称
JianCheng == <<"jiancheng">>                 \* 简称
JiJinMingCheng == <<"jijin", "mingcheng">>   \* 基金名称
MingCheng == <<"mingcheng">>                 \* 名称
JiJinLeiXing == <<"jijin", "leixing">>       \* 基金类型
LeiXing == <<"leixing">>                     \* 类型
JiJinQuanCheng == <<"jijin", "quancheng">>   \* 基金全称
QuanCheng == <<"quancheng">>                 \* 全称
JiJinGongSi == <<"jijin", "gongsi">>         \* 基金公司
GongSi == <<"gongsi">>                       \* 公司
ChengLiRiQi == <<"chengli", "riqi">>         \* 成立日期
ChengLiRi == <<"chengli", "ri">>             \* 成立日

\* line 30
candidates == <<"fund_name_em", "fund_em_fund_name", "fund_open_fund_name_em">>

FuncNone == "None"

\* mutant of SelectFunc: the last candidate the provider module has (a loop
\* without its break)
SelectFunc_last(ak_attrs) ==
    LET have == {k \in 1..Len(candidates) : candidates[k] \in ak_attrs}
    IN  IF have = {} THEN FuncNone
        ELSE candidates[CHOOSE k \in have : \A q \in have : k >= q]

\* lines 35-39: the first candidate the provider module has, else None
SelectFunc(ak_attrs) ==
    LET have == {k \in 1..Len(candidates) : candidates[k] \in ak_attrs}
    IN  IF have = {} THEN FuncNone
        ELSE candidates[CHOOSE k \in have : \A q \in have : k <= q]

\* sub in name, for names written as sequences of words
Contains(name, sub) ==
    \E k \in 1..(Len(name) - Len(sub) + 1) : SubSeq(name, k, k + Len(sub) - 1) = sub

\* mutant of rename_target: the alternate spelling 全称 is not listed
rename_target_without_quancheng(c) ==
    CASE c \in {JiJinDaiMa, DaiMa} -> JiJinDaiMa
      [] c \in {JiJinJianCheng, JianCheng, JiJinMingCheng, MingCheng} -> JiJinMingCheng
      [] c \in {JiJinLeiXing, LeiXing} -> JiJinLeiXing
      [] c \in {JiJinQuanCheng} -> JiJinQuanCheng
      [] c \in {JiJinGongSi, GongSi} -> JiJinGongSi
      [] c \in {ChengLiRiQi, ChengLiRi} -> ChengLiRiQi
      [] OTHER -> <<>>

\* lines 52-63, the if/elif chain: the name a listed column is renamed to,
\* <<>> for a column that is not listed
rename_target(c) ==
    CASE c \in {JiJinDaiMa, DaiMa} -> JiJinDaiMa
      [] c \in {JiJinJianCheng, JianCheng, JiJinMingCheng, MingCheng} -> JiJinMingCheng
      [] c \in {JiJinLeiXing, LeiXing} -> JiJinLeiXing
      [] c \in {JiJinQuanCheng, QuanCheng} -> JiJinQuanCheng
      [] c \in {JiJinGongSi, GongSi} -> JiJinGongSi
      [] c \in {ChengLiRiQi, ChengLiRi} -> ChengLiRiQi
      [] OTHER -> <<>>

\* lines 50-63: the dict rename_map, an entry for each listed column of df
rename_map(d) ==
    [c \in {d.columns[j] : j \in {q \in 1..Len(d.columns) : rename_target(d.columns[q]) # <<>>}}
        |-> rename_target(c)]

\* df.rename(columns=mapping), mapping a dict
rename(d, mapping) ==
    [d EXCEPT !.columns = [j \in 1..Len(d.columns) |->
        IF d.columns[j] \in DOMAIN mapping THEN mapping[d.columns[j]] ELSE d.columns[j]]]

\* the positions of the columns labelled name, ascending
RECURSIVE PositionsFrom(_, _, _)
PositionsFrom(d, name, j) ==
    IF j > Len(d.columns) THEN <<>>
    ELSE IF d.columns[j] = name THEN <<j>> \o PositionsFrom(d, name, j + 1)
         ELSE PositionsFrom(d, name, j + 1)

\* next((c for c in df.columns if <one of subs> in c), None): the position
\* of the column, 0 for None
FirstColumnContaining(d, subs) ==
    LET hits == {j \in 1..Len(d.columns) : \E sub \in subs : Contains(d.columns[j], sub)}
    IN  IF hits = {} THEN 0 ELSE CHOOSE j \in hits : \A q \in hits : j <= q

\* line 78
keep_order ==
    <<JiJinDaiMa, JiJinMingCheng, JiJinLeiXing, JiJinQuanCheng, JiJinGongSi, ChengLiRiQi>>

\* df[keep]: for each label of keep that df has, every column so labelled
RECURSIVE KeepPositions(_, _)
KeepPositions(d, k) ==
    IF k > Len(keep_order) THEN <<>>
    ELSE PositionsFrom(d, keep_order[k], 1) \o KeepPositions(d, k + 1)

SelectColumns(d, pos) ==
    [columns |-> [j \in 1..Len(pos) |-> d.columns[pos[j]]],
     rows |-> [r \in 1..Len(d.rows) |-> [j \in 1..Len(pos) |-> d.rows[r][pos[j]]]]]

\* df[name] = value for a label df does not have yet: a new last column
\* holding value in every row
AssignScalar(d, name, value) ==
    [columns |-> Append(d.columns, name),
     rows |-> [r \in 1..Len(d.rows) |->
                 Append(d.rows[r], [v |-> value, col |-> <<>>, row |-> r])]]

\* mutant of AssignList: the list is laid out from the last row upwards
AssignList_reversed(d, name, values) ==
    [columns |-> Append(d.columns, name),
     rows |-> [r \in 1..Len(d.rows) |->
                 Append(d.rows[r],
                        [v |-> values[Len(d.rows) + 1 - r], col |-> <<>>, row |-> r])]]

\* df[name] = values (a list as long as df) for a label df does not have
\* yet: a new last column holding values[r] in row r
AssignList(d, name, values) ==
    [columns |-> Append(d.columns, name),
     rows |-> [r \in 1..Len(d.rows) |->
                 Append(d.rows[r], [v |-> values[r], col |-> <<>>, row |-> r])]]

\* line 76: df[name] = df[src] (src a position), or df[name] = "" when
\* src = 0
AddColumn(d, name, src) ==
    IF src = 0 THEN AssignScalar(d, name, Str(""))
    ELSE [columns |-> Append(d.columns, name),
          rows |-> [r \in 1..Len(d.rows) |-> Append(d.rows[r], d.rows[r][src])]]

\* mutant of head: the whole frame
head_all(d, n) == d

\* df.head(n)
head(d, n) ==
    [d EXCEPT !.rows = SubSeq(d.rows, 1, IF Len(d.rows) < n THEN Len(d.rows) ELSE n)]

\* df[name].tolist()
tolist(d, name) == [r \in 1..Len(d.rows) |-> d.rows[r][ColumnIndex(d, name)].v]

\* astype(str) of one value
astype_str(v) ==
    CASE IsKind(v, "str") -> v
      [] IsKind(v, "int") -> Str(IntToStr(v.int))

\* line 81 for one cell: .astype(str).str.zfill(6)
NormalizeCode(cell) == [cell EXCEPT !.v = Str(zfill(astype_str(cell.v).str, 6))]

RECURSIVE drop_duplicates_keep_last(_, _, _)
\* mutant of drop_duplicates: keep="last", a row goes when a later row has
\* the same value in column j
drop_duplicates_keep_last(rows, j, seen) ==
    IF rows = <<>> THEN <<>>
    ELSE IF \E q \in 2..Len(rows) : rows[q][j].v = Head(rows)[j].v
         THEN drop_duplicates_keep_last(Tail(rows), j, seen)
         ELSE <<Head(rows)>> \o drop_duplicates_keep_last(Tail(rows), j, seen)

\* drop_duplicates(subset=[column j]): a row goes when an earlier row has
\* the same value in column j
RECURSIVE drop_duplicates(_, _, _)
drop_duplicates(rows, j, seen) ==
    IF rows = <<>> THEN <<>>
    ELSE IF Head(rows)[j].v \in seen THEN drop_duplicates(Tail(rows), j, seen)
         ELSE <<Head(rows)>> \o drop_duplicates(Tail(rows), j, seen \cup {Head(rows)[j].v})

Raise(e) == [kind |-> "raise", error |-> e]

\* mutant of NormalizeNamed: a frame without a name column is refused
NormalizeNamed_strict(d1) ==
    LET name_col == FirstColumnContaining(d1, {JianCheng, MingCheng})
        d3 == SelectColumns(d1, KeepPositions(d1, 1))
        codes == PositionsFrom(d3, JiJinDaiMa, 1)
    IN  IF ~HasColumn(d1, JiJinMingCheng) /\ name_col = 0 THEN Raise("RuntimeError")
        ELSE IF Len(codes) > 1 THEN Raise("AttributeError")
        ELSE LET d4 == SetColumn(d3, JiJinDaiMa,
                            [r \in 1..Len(d3.rows) |-> NormalizeCode(Column(d3, JiJinDaiMa)[r])])
             IN  [kind |-> "table",
                  table |-> [d4 EXCEPT !.rows = drop_duplicates(d4.rows, codes[1], {})]]

\* lines 74-83, for a frame that has a column labelled 基金代码
NormalizeNamed(df1) ==
    LET name_col == FirstColumnContaining(df1, {JianCheng, MingCheng})
        df2 == IF HasColumn(df1, JiJinMingCheng) THEN df1
               ELSE AddColumn(df1, JiJinMingCheng, name_col)
        df3 == SelectColumns(df2, KeepPositions(df2, 1))
        codes == PositionsFrom(df3, JiJinDaiMa, 1)
    IN  \* two columns labelled 基金代码: df["基金代码"] is a frame, it has no .str
        IF Len(codes) > 1 THEN Raise("AttributeError")
        ELSE LET df4 == SetColumn(df3, JiJinDaiMa,
                            [r \in 1..Len(df3.rows) |-> NormalizeCode(Column(df3, JiJinDaiMa)[r])])
             IN  [kind |-> "table",
                  table |-> [df4 EXCEPT !.rows = drop_duplicates(df4.rows, codes[1], {})]]

\* lines 49-83: the provider's frame normalised, or the error raised
Normalize(d) ==
    LET df0 == rename(d, rename_map(d))
        code_col == FirstColumnContaining(df0, {DaiMa})
    IN  IF HasColumn(df0, JiJinDaiMa) THEN NormalizeNamed(df0)
        ELSE IF code_col = 0 THEN Raise("RuntimeError")
        ELSE NormalizeNamed(rename(df0, [c \in {df0.columns[code_col]} |-> JiJinDaiMa]))

\* get_fund_list as a whole: what it returns or raises, and the provider
\* functions it called, for the provider's attributes and the outcome of
\* the catalog call
get_fund_list(ak_attrs, resp) ==
    LET func == SelectFunc(ak_attrs)
    IN  IF func = FuncNone THEN [ret |-> Raise("RuntimeError"), called |-> <<>>]
        ELSE IF resp.kind = "raise"
             THEN [ret |-> Raise("ProviderError"), called |-> <<func>>]
        ELSE [ret |-> Normalize(resp.frame), called |-> <<func>>]

(***************************************************************************)
(* fetch_latest_nav as a two-step process: the provider call, the return.  *)
(***************************************************************************)
NavInit ==
    /\ nav_pc = "idle"
    /\ nav_resp = [kind |-> "none"]
    /\ nav_ret = NonePair

NavProviderCall ==
    /\ nav_pc = "idle"
    /\ \E cols \in NavSchemas, n \in 0..MaxRows :
         \E r \in NavResponses(cols, n) : nav_resp' = r
    /\ nav_pc' = "called"
    /\ UNCHANGED <<nav_ret, ak, list_vars, main_vars>>

NavReturn ==
    /\ nav_pc = "called"
    /\ \E p \in fetch_latest_nav(nav_resp) : nav_ret' = p
    /\ nav_pc' = "returned"
    /\ UNCHANGED <<nav_resp, ak, list_vars, main_vars>>

NavNext == NavProviderCall \/ NavReturn

(***************************************************************************)
(* The provider's catalog endpoint: what one call can do.                  *)
(***************************************************************************)
RawIds == { Str("1"), Str("000001"), PyInt(1), PyInt(2), PyInt(3), Str("1234567") }

CatalogSchemas ==
    { <<JiJinDaiMa, <<"pinyin", "suoxie">>, JiJinJianCheng, JiJinLeiXing, <<"pinyin", "quancheng">>>>,
      <<DaiMa, MingCheng, LeiXing>>,
      <<JianCheng, DaiMa>>,
      <<DaiMa, QuanCheng, GongSi, ChengLiRi>>,
      <<<<"zhengquan", "daima">>, <<"pinyin", "jiancheng">>>>,
      <<JiJinDaiMa, <<"pinyin", "suoxie">>>>,
      <<JiJinJianCheng, JiJinLeiXing>>,
      <<JiJinDaiMa, DaiMa, JiJinMingCheng>>,
      <<DaiMa, JiJinJianCheng, JianCheng>> }

\* a frame whose identifier-like columns hold the raw identifiers and whose
\* other columns hold a text of their own for each row
CatalogFrame(cols, raws) ==
    [columns |-> cols,
     rows |-> [r \in 1..Len(raws) |-> [j \in 1..Len(cols) |->
                [v |-> IF Contains(cols[j], DaiMa) THEN raws[r] ELSE Str("t" \o IntToStr(r)),
                 col |-> cols[j], row |-> r]]]]

RawSeqs == UNION { [1..n -> RawIds] : n \in 0..MaxFunds }

CatalogResponses ==
    { [kind |-> "raise"] }
        \cup { [kind |-> "frame", frame |-> CatalogFrame(cols, raws)] :
                 cols \in CatalogSchemas, raws \in RawSeqs }

(***************************************************************************)
(* get_fund_list as a process: probe, provider call, normalisation.        *)
(***************************************************************************)
NoFrame == [columns |-> <<>>, rows |-> <<>>]

ListIdle ==
    /\ list_pc = "idle"
    /\ list_func = FuncNone
    /\ list_called = <<>>
    /\ list_df = NoFrame
    /\ list_ret = Raise("")

\* lines 30-45
ListProbe ==
    /\ list_pc = "probe"
    /\ list_func' = SelectFunc(ak)
    /\ IF SelectFunc(ak) = FuncNone
       THEN list_pc' = "raised" /\ list_ret' = get_fund_list(ak, [kind |-> "raise"]).ret
       ELSE list_pc' = "call" /\ UNCHANGED list_ret
    /\ UNCHANGED <<ak, list_called, list_df, nav_vars, main_vars>>

\* line 47
ListProviderCall ==
    /\ list_pc = "call"
    /\ list_called' = Append(list_called, list_func)
    /\ \E resp \in CatalogResponses :
         IF resp.kind = "raise"
         THEN list_pc' = "raised" /\ list_ret' = get_fund_list(ak, resp).ret
                                  /\ UNCHANGED list_df
         ELSE list_pc' = "normalize" /\ list_df' = resp.frame /\ UNCHANGED list_ret
    /\ UNCHANGED <<ak, list_func, nav_vars, main_vars>>

\* lines 49-83
ListNormalize ==
    /\ list_pc = "normalize"
    /\ list_ret' = get_fund_list(ak, [kind |-> "frame", frame |-> list_df]).ret
    /\ list_pc' = IF list_ret'.kind = "raise" THEN "raised" ELSE "returned"
    /\ UNCHANGED <<ak, list_func, list_called, list_df, nav_vars, main_vars>>

ListNext == ListProbe \/ ListProviderCall \/ ListNormalize

(***************************************************************************)
(* main                                                                    *)
(***************************************************************************)
ZuiXinJingZhiRiQi == <<"zuixin", "jingzhi", "riqi">>      \* 最新净值日期
ZuiXinDanWeiJingZhi == <<"zuixin", "danwei", "jingzhi">>  \* 最新单位净值
DaoChuShiJian == <<"daochu", "shijian">>                  \* 导出时间

\* line 12
DEFAULT_OUT == <<"outputs", "jijinlist.xlsx">>

\* os.path.dirname
dirname(path) == SubSeq(path, 1, Len(path) - 1)

\* lines 19-23: the set of directories after ensure_dir(path)
ensure_dir(path, dirs) == IF dirname(path) # <<>> THEN dirs \cup {dirname(path)} ELSE dirs

\* lines 137-139
AssignResults(table, dates, vals, now) ==
    AssignScalar(
        AssignList(AssignList(table, ZuiXinJingZhiRiQi, dates), ZuiXinDanWeiJingZhi, vals),
        DaoChuShiJian, Str(now))

\* mutant of main_step: the loop does not sleep
main_step_no_sleep(at, n, total) ==
    CASE at = "step1" -> IF total = 0 THEN "assign" ELSE "fetch"
      [] at = "fetch" -> IF n = total THEN "assign" ELSE "fetch"
      [] at = "sleep" -> IF n = total THEN "assign" ELSE "fetch"
      [] at = "assign" -> "ensure_dir"
      [] at = "ensure_dir" -> "write"
      [] at = "write" -> "done"

\* the control flow of main (lines 116-144) after a step that did not
\* raise: n is the number of fetches made, total the length of the table
main_step(at, n, total) ==
    CASE at = "step1" -> IF total = 0 THEN "assign" ELSE "fetch"
      [] at = "fetch" -> "sleep"
      [] at = "sleep" -> IF n = total THEN "assign" ELSE "fetch"
      [] at = "assign" -> "ensure_dir"
      [] at = "ensure_dir" -> "write"
      [] at = "write" -> "done"

(***************************************************************************)
(* What the environment of main can do: the installed provider, the        *)
(* catalog call, each NAV call, the clock.                                 *)
(***************************************************************************)
MainAkAttrs == { {}, {candidates[2], candidates[3]} }

MainRawIds == { Str("1"), PyInt(1), PyInt(2), PyInt(3), Str("1234567") }

MainSchemas ==
    { <<JiJinDaiMa, <<"pinyin", "suoxie">>, JiJinJianCheng, JiJinLeiXing, <<"pinyin", "quancheng">>>>,
      <<JiJinJianCheng, JiJinLeiXing>> }

MainCatalogResponses ==
    { [kind |-> "raise"] }
        \cup { [kind |-> "frame", frame |-> CatalogFrame(cols, raws)] :
                 cols \in MainSchemas,
                 raws \in UNION { [1..n -> MainRawIds] : n \in 0..MaxFunds } }

MainNavResponses ==
    { [kind |-> "raise"],
      [kind |-> "frame", frame |-> [columns |-> <<JingZhiRiQi, DanWeiJingZhi>>, rows |-> <<>>]],
      [kind |-> "frame", frame |-> [columns |-> <<JingZhiRiQi, DanWeiJingZhi>>,
          rows |-> << <<DateObj(2024, 1, 2), Float(10520)>>,
                      <<DateObj(2023, 12, 29), Float(9870)>> >>]],
      [kind |-> "frame", frame |-> [columns |-> <<JingZhiRiQi, DanWeiJingZhi>>,
          rows |-> << <<Str("--"), Float(9870)>> >>]] }

ExportStamps == { "2026-11-01 09:00:00", "2026-11-01 09:00:01" }

OutPaths == { DEFAULT_OUT, <<"jijinlist.xlsx">> }

MainIdle ==
    /\ OUT_PATH = DEFAULT_OUT
    /\ pc = "idle"
    /\ catalog = NoFrame
    /\ df = NoFrame
    /\ i = 0
    /\ nav_dates = <<>>
    /\ nav_vals = <<>>
    /\ nav_log = <<>>
    /\ events = <<>>
    /\ slept = 0
    /\ out_file = None
    /\ out_dirs = {}

MainInit ==
    /\ OUT_PATH \in OutPaths
    /\ pc = "step1"
    /\ catalog = NoFrame
    /\ df = NoFrame
    /\ i = 0
    /\ nav_dates = <<>>
    /\ nav_vals = <<>>
    /\ nav_log = <<>>
    /\ events = <<>>
    /\ slept = 0
    /\ out_file = None
    /\ out_dirs = {}

Event(op) == [op |-> op, at |-> slept]

\* lines 116-125: get_fund_list, then head(TOP_N); an error of
\* get_fund_list leaves main
MainGetFundList ==
    /\ pc = "step1"
    /\ \E resp \in MainCatalogResponses :
         LET got == get_fund_list(ak, resp).ret
         IN  IF got.kind = "raise"
             THEN pc' = "raised" /\ UNCHANGED <<catalog, df>>
             ELSE /\ catalog' = got.table
                  /\ df' = head(got.table, TOP_N)
                  /\ pc' = main_step("step1", 0, Len(df'.rows))
    /\ UNCHANGED <<OUT_PATH, i, nav_dates, nav_vals, nav_log, events, slept, out_file,
                   out_dirs, ak, nav_vars, list_vars>>

\* lines 127-130: the next code of the table, fetch_latest_nav on it, the
\* pair appended to the two lists
MainFetch ==
    /\ pc = "fetch"
    /\ i' = i + 1
    /\ LET code == tolist(df, JiJinDaiMa)[i + 1]
       IN  \E resp \in MainNavResponses : \E p \in fetch_latest_nav(resp) :
             /\ nav_dates' = Append(nav_dates, p[1])
             /\ nav_vals' = Append(nav_vals, p[2])
             /\ nav_log' = Append(nav_log, [code |-> code, resp |-> resp, ret |-> p])
    /\ events' = Append(events, Event("fetch"))
    /\ pc' = main_step("fetch", i', Len(df.rows))
    /\ UNCHANGED <<OUT_PATH, catalog, df, slept, out_file, out_dirs, ak, nav_vars, list_vars>>

\* line 135
MainSleep ==
    /\ pc = "sleep"
    /\ slept' = slept + SLEEP_MS
    /\ events' = Append(events, Event("sleep"))
    /\ pc' = main_step("sleep", i, Len(df.rows))
    /\ UNCHANGED <<OUT_PATH, catalog, df, i, nav_dates, nav_vals, nav_log, out_file,
                   out_dirs, ak, nav_vars, list_vars>>

\* lines 137-139
MainAssign ==
    /\ pc = "assign"
    /\ \E now \in ExportStamps : df' = AssignResults(df, nav_dates, nav_vals, now)
    /\ pc' = main_step("assign", i, Len(df.rows))
    /\ UNCHANGED <<OUT_PATH, catalog, i, nav_dates, nav_vals, nav_log, events, slept,
                   out_file, out_dirs, ak, nav_vars, list_vars>>

\* line 142
MainEnsureDir ==
    /\ pc = "ensure_dir"
    /\ out_dirs' = ensure_dir(OUT_PATH, out_dirs)
    /\ events' = IF out_dirs' # out_dirs THEN Append(events, Event("makedirs")) ELSE events
    /\ pc' = main_step("ensure_dir", i, Len(df.rows))
    /\ UNCHANGED <<OUT_PATH, catalog, df, i, nav_dates, nav_vals, nav_log, slept, out_file,
                   ak, nav_vars, list_vars>>

\* lines 143-144
MainWrite ==
    /\ pc = "write"
    /\ out_file' = df
    /\ events' = Append(events, Event("write"))
    /\ pc' = main_step("write", i, Len(df.rows))
    /\ UNCHANGED <<OUT_PATH, catalog, df, i, nav_dates, nav_vals, nav_log, slept, out_dirs,
                   ak, nav_vars, list_vars>>

Next ==
    \/ MainGetFundList
    \/ MainFetch
    \/ MainSleep
    \/ MainAssign
    \/ MainEnsureDir
    \/ MainWrite

Init == NavInit /\ ListIdle /\ MainInit /\ ak \in MainAkAttrs

InitNav == NavInit /\ ListIdle /\ MainIdle /\ ak = {}

InitList ==
    /\ nav_pc = "idle" /\ nav_resp = [kind |-> "none"] /\ nav_ret = NonePair
    /\ MainIdle
    /\ ListIdle!2 /\ ListIdle!3 /\ ListIdle!4 /\ ListIdle!5
    /\ list_pc = "probe"
    /\ ak \in SUBSET {candidates[k] : k \in 1..Len(candidates)}

\* main
Spec == Init /\ [][Next]_vars

\* fetch_latest_nav on its own, over every outcome of the provider call
SpecNav == InitNav /\ [][NavNext]_vars

\* get_fund_list on its own, over every provider module and catalog
SpecList == InitList /\ [][ListNext]_vars

(***************************************************************************)
(* Properties of fetch_latest_nav (checked under SpecNav).                 *)
(***************************************************************************)
\* A row of the provider's frame is valid when its date cell parses as a
\* date and its value cell parses as a number.
RowValid(dfn, r) ==
    /\ ~isna(to_datetime(dfn.rows[r][ColumnIndex(dfn, date_col(dfn))]))
    /\ ~isna(to_numeric(dfn.rows[r][ColumnIndex(dfn, nav_col(dfn))]))

ValidRows(dfn) ==
    IF IndexError(dfn) THEN {} ELSE {r \in 1..Len(dfn.rows) : RowValid(dfn, r)}

ParsedDate(dfn, r) == to_datetime(dfn.rows[r][ColumnIndex(dfn, date_col(dfn))])
ParsedValue(dfn, r) == to_numeric(dfn.rows[r][ColumnIndex(dfn, nav_col(dfn))])

\* the valid rows whose parsed date is the greatest
MaxDateRows(dfn) ==
    {r \in ValidRows(dfn) : \A q \in ValidRows(dfn) :
        KeyLeq(SortKey(ParsedDate(dfn, q)), SortKey(ParsedDate(dfn, r)))}

ReturnsMaxDateRow(dfn) ==
    \E r \in MaxDateRows(dfn) :
        nav_ret = <<Str(strftime(ParsedDate(dfn, r))), ParsedValue(dfn, r)>>

NavReturnedFrame == nav_pc = "returned" /\ nav_resp.kind = "frame"

C2_NoValidRowGivesNone ==
    /\ nav_pc = "called" => fetch_latest_nav(nav_resp) # {}
    /\ (/\ nav_pc = "returned"
        /\ \/ nav_resp.kind \in {"raise", "none"}
           \/ ValidRows(nav_resp.frame) = {})
            => nav_ret = NonePair

\* a frame with rows, none of them valid, answered with (None, None)
C2_Witness ==
    /\ NavReturnedFrame
    /\ Len(nav_resp.frame.rows) = 2
    /\ Len(nav_resp.frame.columns) = 2
    /\ ~IndexError(nav_resp.frame)
    /\ ValidRows(nav_resp.frame) = {}
    /\ \E r \in 1..2 : ~isna(ParsedDate(nav_resp.frame, r))
    /\ nav_ret = NonePair

(***************************************************************************)
(* Properties of get_fund_list (checked under SpecList).                   *)
(***************************************************************************)
\* get_fund_list returned a table
ListReturned == list_pc = "returned" /\ list_ret.kind = "table"

\* the provider returned a frame and get_fund_list has finished with it
ListFinishedFrame ==
    /\ list_pc \in {"returned", "raised"}
    /\ list_called # <<>>
    /\ ~(list_pc = "raised" /\ list_ret.error = "ProviderError")

\* the value the provider gave in the place a cell of the table came from
ProviderValue(cell) == list_df.rows[cell.row][ColumnIndex(list_df, cell.col)].v

RECURSIVE Zeros(_)
Zeros(k) == IF k = 0 THEN "" ELSE "0" \o Zeros(k - 1)

\* raw written as a string and left-padded with zeros to six characters
PaddedTo6(raw) ==
    LET t == astype_str(raw).str
    IN  Zeros(IF Len(t) >= 6 THEN 0 ELSE 6 - Len(t)) \o t

CodeCells == [r \in 1..Len(list_ret.table.rows) |->
                list_ret.table.rows[r][ColumnIndex(list_ret.table, JiJinDaiMa)]]

\* C3 as stated: every identifier of the returned table is a string of
\* exactly 6 characters, whatever the raw identifier was.
C3_Original ==
    ListReturned =>
        \A r \in 1..Len(CodeCells) :
            IsKind(CodeCells[r].v, "str") /\ Len(CodeCells[r].v.str) = 6

\* C3 (amended): every identifier of the returned table is a string, the raw
\* identifier written as a string and left-padded with zeros to 6 characters:
\* exactly 6 characters when the raw string has at most 6, and the raw string
\* unchanged (longer than 6, never truncated) when it has more.
C3_ZeroPadded ==
    ListReturned =>
        \A r \in 1..Len(CodeCells) :
            LET raw == ProviderValue(CodeCells[r])
                id == CodeCells[r].v
            IN  /\ IsKind(id, "str")
                /\ id.str = PaddedTo6(raw)
                /\ Len(id.str) >= 6
                /\ Len(astype_str(raw).str) <= 6 => Len(id.str) = 6
                /\ Len(astype_str(raw).str) > 6 => id.str = astype_str(raw).str

\* a table holding a padded short identifier, a padded number and an
\* identifier longer than 6 characters
C3_Witness ==
    /\ ListReturned
    /\ Len(CodeCells) = 3
    /\ CodeCells[1].v = Str("000001") /\ ProviderValue(CodeCells[1]) = Str("1")
    /\ CodeCells[2].v = Str("000002") /\ ProviderValue(CodeCells[2]) = PyInt(2)
    /\ CodeCells[3].v = Str("1234567")

\* C4: the returned table has no two rows with the same normalised
\* identifier; each provider row is represented by the first provider row
\* with its normalised identifier (so "1" and "000001" collapse into the
\* earlier of the two); the surviving rows keep their provider order.
C4_DedupAfterPadding ==
    ListReturned =>
        LET out == CodeCells
            src == IF out = <<>> THEN 1 ELSE ColumnIndex(list_df, out[1].col)
            nid(q) == PaddedTo6(list_df.rows[q][src].v)
        IN  /\ \A a, b \in 1..Len(out) : a # b => out[a].v # out[b].v
            /\ \A a, b \in 1..Len(out) : a < b => out[a].row < out[b].row
            /\ Len(list_df.rows) > 0 => Len(out) > 0
            /\ \A q \in 1..Len(list_df.rows) :
                 \E a \in 1..Len(out) :
                    /\ out[a].v = Str(nid(q))
                    /\ out[a].row <= q
                    /\ \A q2 \in 1..(out[a].row - 1) : nid(q2) # nid(q)
            /\ \A a \in 1..Len(out) : \A j \in 1..Len(list_ret.table.columns) :
                 list_ret.table.rows[a][j].row = out[a].row

\* provider rows "000001", 2, "1" (the third a duplicate of the first only
\* after padding) returned as two rows, the first and the second
C4_Witness ==
    /\ ListReturned
    /\ Len(list_df.rows) = 3
    /\ Len(CodeCells) = 2
    /\ ProviderValue(CodeCells[1]) = Str("000001") /\ CodeCells[1].row = 1
    /\ CodeCells[2].row = 2
    /\ list_df.rows[3][ColumnIndex(list_df, CodeCells[1].col)].v = Str("1")

\* an identifier column can be inferred: a column whose name is, or
\* contains, 代码
IdInferable(d) == \E j \in 1..Len(d.columns) : Contains(d.columns[j], DaiMa)

\* a name column can be inferred: a column whose name is, or contains, 简称
\* or 名称
NameInferable(d) ==
    \E j \in 1..Len(d.columns) :
        Contains(d.columns[j], JianCheng) \/ Contains(d.columns[j], MingCheng)

\* C5 as stated: get_fund_list raises when no identifier column can be
\* inferred and when no name column can be inferred, and returns a table only
\* when both were inferred.
C5_Original ==
    ListFinishedFrame =>
        /\ ~IdInferable(list_df) => list_pc = "raised"
        /\ ~NameInferable(list_df) => list_pc = "raised"
        /\ list_pc = "returned" => IdInferable(list_df) /\ NameInferable(list_df)

\* C5 (amended): get_fund_list raises the configuration error (RuntimeError),
\* returning no table, when no identifier column can be inferred, and returns
\* a table only when one was inferred.  A missing name column is no error:
\* when no name column can be inferred the table returned has a 基金名称
\* column holding the empty string in every row.
C5_RaisesOnlyWithoutIdColumn ==
    ListFinishedFrame =>
        /\ ~IdInferable(list_df) => list_pc = "raised" /\ list_ret = Raise("RuntimeError")
        /\ list_pc = "returned" => IdInferable(list_df)
        /\ (list_pc = "raised" /\ list_ret = Raise("RuntimeError")) => ~IdInferable(list_df)
        /\ (list_pc = "returned" /\ ~NameInferable(list_df)) =>
              /\ Len(PositionsFrom(list_ret.table, JiJinMingCheng, 1)) = 1
              /\ \A r \in 1..Len(list_ret.table.rows) :
                    list_ret.table.rows[r][ColumnIndex(list_ret.table, JiJinMingCheng)].v = Str("")

\* a frame with an identifier column and no name column, returned as a
\* table of two rows with empty names
C5_Witness ==
    /\ ListReturned
    /\ IdInferable(list_df) /\ ~NameInferable(list_df)
    /\ Len(list_ret.table.rows) = 2
    /\ list_ret.table.rows[2][ColumnIndex(list_ret.table, JiJinMingCheng)].v = Str("")

\* the first candidate, in the fixed order, that the provider has
FirstAvailable ==
    IF "fund_name_em" \in ak THEN "fund_name_em"
    ELSE IF "fund_em_fund_name" \in ak THEN "fund_em_fund_name"
    ELSE "fund_open_fund_name_em"

\* C6: get_fund_list calls exactly one provider function, the first of
\* fund_name_em, fund_em_fund_name, fund_open_fund_name_em that the provider
\* has; when it has none, get_fund_list raises the configuration error
\* having called nothing.
C6_FirstAvailableCalledOnce ==
    /\ list_pc \in {"probe", "call"} => list_called = <<>>
    /\ list_pc \in {"normalize", "returned"} => list_called = <<FirstAvailable>>
    /\ list_pc = "raised" =>
          IF ak = {}
          THEN list_called = <<>> /\ list_ret = Raise("RuntimeError")
          ELSE list_called = <<FirstAvailable>>
    /\ (list_pc # "probe" /\ ak = {}) => list_pc = "raised"

\* a provider with the second and third candidate only: the second called
C6_Witness ==
    /\ list_pc = "returned"
    /\ ak = {"fund_em_fund_name", "fund_open_fund_name_em"}
    /\ list_called = <<"fund_em_fund_name">>

\* the alternate spellings of each canonical column name
Alternates ==
    { <<DaiMa, JiJinDaiMa>>,
      <<JiJinJianCheng, JiJinMingCheng>>, <<JianCheng, JiJinMingCheng>>,
      <<MingCheng, JiJinMingCheng>>,
      <<LeiXing, JiJinLeiXing>>, <<QuanCheng, JiJinQuanCheng>>,
      <<GongSi, JiJinGongSi>>, <<ChengLiRi, ChengLiRiQi>> }

Canonical ==
    {JiJinDaiMa, JiJinMingCheng, JiJinLeiXing, JiJinQuanCheng, JiJinGongSi, ChengLiRiQi}

\* C7: when the provider's frame lacks a canonical column name and has one
\* of its alternate spellings, the returned table has a column with the
\* canonical name holding, row by row, the values of that alternate column
\* (the identifier column zero-padded); the table has no column outside the
\* six canonical names.
C7_AlternatesMapped ==
    ListReturned =>
        LET out == list_ret.table IN
        /\ \A j \in 1..Len(out.columns) : out.columns[j] \in Canonical
        /\ \A alt \in Alternates :
             (HasColumn(list_df, alt[1]) /\ ~HasColumn(list_df, alt[2])) =>
                \E j \in 1..Len(out.columns) :
                    /\ out.columns[j] = alt[2]
                    /\ \A r \in 1..Len(out.rows) :
                         /\ out.rows[r][j].col = alt[1]
                         /\ out.rows[r][j].row = out.rows[r][1].row
                         /\ out.rows[r][j].v =
                              IF alt[2] = JiJinDaiMa
                              THEN Str(PaddedTo6(ProviderValue(out.rows[r][j])))
                              ELSE ProviderValue(out.rows[r][j])

\* the frame 代码, 全称, 公司, 成立日 returned with two rows under the
\* canonical names
C7_Witness ==
    /\ ListReturned
    /\ list_df.columns = <<DaiMa, QuanCheng, GongSi, ChengLiRi>>
    /\ list_ret.table.columns = <<JiJinDaiMa, JiJinMingCheng, JiJinQuanCheng, JiJinGongSi, ChengLiRiQi>>
    /\ Len(list_ret.table.rows) = 2
    /\ list_ret.table.rows[2][3].col = QuanCheng

(***************************************************************************)
(* Properties of main (checked under Spec).                                *)
(***************************************************************************)
\* the identifiers main is to fetch: those of the first min(TOP_N, size)
\* rows of the catalog, in catalog order
ExpectedCodes ==
    LET all == tolist(catalog, JiJinDaiMa)
    IN  SubSeq(all, 1, IF Len(all) < TOP_N THEN Len(all) ELSE TOP_N)

FetchedCodes == [k \in 1..Len(nav_log) |-> nav_log[k].code]

AfterLoop == pc \in {"assign", "ensure_dir", "write", "done"}

\* C8: once the catalog is fetched, fetch_latest_nav is called once for each
\* of the first min(TOP_N, catalog size) identifiers, in catalog order, and
\* for no other; a fetch that fails (for some or for all identifiers) never
\* ends the run: main leaves by an error only before the first fetch, and
\* until the export is done there is always a next step.
C8_EachOfFirstNFetchedOnce ==
    /\ pc \in {"fetch", "sleep"} =>
          /\ Len(nav_log) <= Len(ExpectedCodes)
          /\ FetchedCodes = SubSeq(ExpectedCodes, 1, Len(nav_log))
    /\ AfterLoop => FetchedCodes = ExpectedCodes
    /\ pc = "raised" => nav_log = <<>>
    /\ pc \notin {"done", "raised"} => ENABLED Next

\* a catalog longer than TOP_N, every fetch failed, the export done
C8_Witness ==
    /\ pc = "done"
    /\ Len(catalog.rows) > TOP_N
    /\ Len(nav_log) = TOP_N
    /\ \A k \in 1..Len(nav_log) : nav_log[k].ret = NonePair
    /\ nav_log[1].resp.kind = "raise"
    /\ out_file # None

\* the provider answered with nothing to use: an error or a frame of no rows
EmptyResponse(resp) == resp.kind = "raise" \/ (resp.kind = "frame" /\ resp.frame.rows = <<>>)

CellOf(table, r, name) == table.rows[r][ColumnIndex(table, name)].v

\* C9: for a catalog of k <= TOP_N rows and any NAV responses, the exported
\* table has the k catalog rows in catalog order; row r carries the date and
\* the value fetch_latest_nav returned for the identifier of row r; a row
\* whose response was empty has both fields None; the export time is on
\* every row, with one value.
C9_ExportedTable ==
    (pc = "done" /\ Len(catalog.rows) <= TOP_N) =>
        /\ out_file.columns =
              catalog.columns \o <<ZuiXinJingZhiRiQi, ZuiXinDanWeiJingZhi, DaoChuShiJian>>
        /\ Len(out_file.rows) = Len(catalog.rows)
        /\ \A r \in 1..Len(out_file.rows) :
              /\ SubSeq(out_file.rows[r], 1, Len(catalog.columns)) = catalog.rows[r]
              /\ nav_log[r].code = CellOf(catalog, r, JiJinDaiMa)
              /\ CellOf(out_file, r, ZuiXinJingZhiRiQi) = nav_log[r].ret[1]
              /\ CellOf(out_file, r, ZuiXinDanWeiJingZhi) = nav_log[r].ret[2]
              /\ EmptyResponse(nav_log[r].resp) =>
                    /\ CellOf(out_file, r, ZuiXinJingZhiRiQi) = None
                    /\ CellOf(out_file, r, ZuiXinDanWeiJingZhi) = None
              /\ IsKind(CellOf(out_file, r, DaoChuShiJian), "str")
              /\ CellOf(out_file, r, DaoChuShiJian) = CellOf(out_file, 1, DaoChuShiJian)

\* two catalog rows, the first answered with an empty frame, the second
\* with a series: exported with (None, None) and with the latest pair
C9_Witness ==
    /\ pc = "done"
    /\ Len(catalog.rows) = 2
    /\ Len(out_file.rows) = 2
    /\ nav_log[1].resp.kind = "frame" /\ nav_log[1].resp.frame.rows = <<>>
    /\ CellOf(out_file, 1, ZuiXinJingZhiRiQi) = None
    /\ CellOf(out_file, 2, ZuiXinJingZhiRiQi) = Str("2024-01-02")
    /\ CellOf(out_file, 2, ZuiXinDanWeiJingZhi) = Float(10520)
    /\ CellOf(out_file, 2, DaoChuShiJian) = CellOf(out_file, 1, DaoChuShiJian)

Positions(op) == {k \in 1..Len(events) : events[k].op = op}

\* C10: the spreadsheet is written at most once, and only when the fetch of
\* every row of the table has been made; between two consecutive fetches
\* there is exactly one sleep, of SLEEP_SEC; when the catalog fetch raises
\* there is no fetch, no file and no directory.
C10_WriteOnceAfterAllFetches ==
    /\ Cardinality(Positions("write")) <= 1
    /\ \A w \in Positions("write") :
          /\ \A f \in Positions("fetch") : f < w
          /\ Cardinality(Positions("fetch")) = Len(df.rows)
          /\ Len(nav_log) = Len(df.rows)
    /\ out_file # None => Positions("write") # {}
    /\ \A a, b \in Positions("fetch") :
          (a < b /\ \A m \in Positions("fetch") : ~(a < m /\ m < b)) =>
              /\ Cardinality({m \in Positions("sleep") : a < m /\ m < b}) = 1
              /\ events[b].at - events[a].at = SLEEP_MS
    /\ pc = "raised" =>
          /\ events = <<>>
          /\ nav_log = <<>>
          /\ out_file = None
          /\ out_dirs = {}

\* a run of two fetches: fetch, sleep, fetch, sleep, makedirs, write
C10_Witness ==
    /\ pc = "done"
    /\ [k \in 1..Len(events) |-> events[k].op]
          = <<"fetch", "sleep", "fetch", "sleep", "makedirs", "write">>
    /\ out_file # None
    /\ out_dirs = {<<"outputs">>}
====
